---- MODULE Spec2Model ----
(***************************************************************************)
(* Model of apitools.gen.message_registry.MessageRegistry together with    *)
(* the name normalisation of apitools.gen.util.Names.                      *)
(*                                                                         *)
(* Python strings are sequences of one-character strings, so that the      *)
(* conversions of Names (ClassName, CleanName) and the dotted full names   *)
(* are computed character by character as the code computes them.          *)
(***************************************************************************)
EXTENDS Integers, Sequences, FiniteSets, TLC

----------------------------------------------------------------------------
(* Characters and strings                                                  *)

Digits == <<"0", "1", "2", "3", "4", "5", "6", "7", "8", "9">>

UpperChars ==
    <<"A", "B", "C", "D", "E", "F", "G", "H", "I", "J", "K", "L", "M",
      "N", "O", "P", "Q", "R", "S", "T", "U", "V", "W", "X", "Y", "Z">>

LowerChars ==
    <<"a", "b", "c", "d", "e", "f", "g", "h", "i", "j", "k", "l", "m",
      "n", "o", "p", "q", "r", "s", "t", "u", "v", "w", "x", "y", "z">>

Range(s) == {s[i] : i \in DOMAIN s}

IndexOf(s, c) == CHOOSE i \in DOMAIN s : s[i] = c

IsDigit(c) == c \in Range(Digits)

IsUpper(c) == c \in Range(UpperChars)

IsLower(c) == c \in Range(LowerChars)

\* ord(c) for the characters a name can hold (ASCII).
Ord(c) ==
    IF IsDigit(c) THEN 47 + IndexOf(Digits, c)
    ELSE IF IsUpper(c) THEN 64 + IndexOf(UpperChars, c)
    ELSE IF IsLower(c) THEN 96 + IndexOf(LowerChars, c)
    ELSE IF c = "_" THEN 95
    ELSE IF c = "." THEN 46
    ELSE IF c = "-" THEN 45
    ELSE 36

\* c.upper()
Upper(c) == IF IsLower(c) THEN UpperChars[IndexOf(LowerChars, c)] ELSE c

\* cmp(a, b) < 0 on strings: lexicographic by character code.
RECURSIVE StrLess(_, _)
StrLess(a, b) ==
    IF b = <<>> THEN FALSE
    ELSE IF a = <<>> THEN TRUE
    ELSE IF Ord(a[1]) # Ord(b[1]) THEN Ord(a[1]) < Ord(b[1])
    ELSE StrLess(Tail(a), Tail(b))

\* a.startswith(p)
StartsWith(a, p) == Len(p) <= Len(a) /\ SubSeq(a, 1, Len(p)) = p

\* sep.join(parts), for a one-character separator
RECURSIVE Join(_, _)
Join(sep, parts) ==
    IF parts = <<>> THEN <<>>
    ELSE IF Len(parts) = 1 THEN parts[1]
    ELSE parts[1] \o <<sep>> \o Join(sep, Tail(parts))

\* name.split(sep): the pieces between separators, empty pieces included.
RECURSIVE Split(_, _)
Split(name, sep) ==
    IF \A i \in DOMAIN name : name[i] # sep THEN <<name>>
    ELSE LET i == CHOOSE j \in DOMAIN name :
                      name[j] = sep /\ \A k \in 1..(j - 1) : name[k] # sep
         IN  <<SubSeq(name, 1, i - 1)>>
                 \o Split(SubSeq(name, i + 1, Len(name)), sep)

RECURSIVE Concat(_)
Concat(parts) ==
    IF parts = <<>> THEN <<>> ELSE parts[1] \o Concat(Tail(parts))

S_Value == <<"V", "a", "l", "u", "e">>
S_ValuesEnum == <<"V", "a", "l", "u", "e", "s", "E", "n", "u", "m">>
S_ListEntry == <<"L", "i", "s", "t", "E", "n", "t", "r", "y">>
S_AdditionalProperty ==
    <<"A", "d", "d", "i", "t", "i", "o", "n", "a", "l",
      "P", "r", "o", "p", "e", "r", "t", "y">>
S_additionalProperties ==
    <<"a", "d", "d", "i", "t", "i", "o", "n", "a", "l",
      "P", "r", "o", "p", "e", "r", "t", "i", "e", "s">>
S_key == <<"k", "e", "y">>
S_value == <<"v", "a", "l", "u", "e">>
S_protorpc == <<"p", "r", "o", "t", "o", "r", "p", "c", ".">>
S_message_types ==
    <<"m", "e", "s", "s", "a", "g", "e", "_", "t", "y", "p", "e", "s", ".">>
S_DateTimeMessage ==
    S_protorpc \o S_message_types
        \o <<"D", "a", "t", "e", "T", "i", "m", "e",
             "M", "e", "s", "s", "a", "g", "e">>
S_string == <<"s", "t", "r", "i", "n", "g">>
S_integer == <<"i", "n", "t", "e", "g", "e", "r">>
S_boolean == <<"b", "o", "o", "l", "e", "a", "n">>
S_number == <<"n", "u", "m", "b", "e", "r">>
S_byte == <<"b", "y", "t", "e">>

----------------------------------------------------------------------------
(* util.Names                                                              *)

\* keyword.kwlist of the Python 2 interpreter the code runs on.
kwlist == {
    <<"a", "n", "d">>, <<"a", "s">>, <<"a", "s", "s", "e", "r", "t">>,
    <<"b", "r", "e", "a", "k">>, <<"c", "l", "a", "s", "s">>,
    <<"c", "o", "n", "t", "i", "n", "u", "e">>, <<"d", "e", "f">>,
    <<"d", "e", "l">>, <<"e", "l", "i", "f">>, <<"e", "l", "s", "e">>,
    <<"e", "x", "c", "e", "p", "t">>, <<"e", "x", "e", "c">>,
    <<"f", "i", "n", "a", "l", "l", "y">>, <<"f", "o", "r">>,
    <<"f", "r", "o", "m">>, <<"g", "l", "o", "b", "a", "l">>, <<"i", "f">>,
    <<"i", "m", "p", "o", "r", "t">>, <<"i", "n">>, <<"i", "s">>,
    <<"l", "a", "m", "b", "d", "a">>, <<"n", "o", "t">>, <<"o", "r">>,
    <<"p", "a", "s", "s">>, <<"p", "r", "i", "n", "t">>,
    <<"r", "a", "i", "s", "e">>, <<"r", "e", "t", "u", "r", "n">>,
    <<"t", "r", "y">>, <<"w", "h", "i", "l", "e">>, <<"w", "i", "t", "h">>,
    <<"y", "i", "e", "l", "d">> }

\* The Names object the registry is constructed with: no prefixes to strip,
\* enum names kept as written.
strip_prefixes == <<>>

capitalize_enums == FALSE

\* Names.__StripName: the first prefix (longest first) that name starts with
\* is removed.
StripName(name) ==
    IF name = <<>> THEN name
    ELSE IF \E i \in DOMAIN strip_prefixes :
                StartsWith(name, strip_prefixes[i])
    THEN LET i == CHOOSE j \in DOMAIN strip_prefixes :
                      /\ StartsWith(name, strip_prefixes[j])
                      /\ \A k \in 1..(j - 1) :
                             ~StartsWith(name, strip_prefixes[k])
         IN  SubSeq(name, Len(strip_prefixes[i]) + 1, Len(name))
    ELSE name

\* Names.__ToCamel raises IndexError (s[0]) on an empty piece.
ToCamelOK(name) == \A p \in Range(Split(name, "_")) : p # <<>>

\* Names.__ToCamel: ''.join(s[0].upper() + s[1:] for s in name.split('_'))
ToCamel(name) ==
    LET pieces == Split(name, "_")
    IN  Concat([i \in DOMAIN pieces |->
                   <<Upper(pieces[i][1])>> \o Tail(pieces[i])])

\* Names.CleanName raises IndexError (name[0]) on the empty string.
CleanNameOK(name) == name # <<>>

RECURSIVE EscapeKeyword(_)
EscapeKeyword(name) ==
    IF name \in kwlist THEN EscapeKeyword(name \o <<"_">>) ELSE name

\* Names.CleanName
CleanName(name) ==
    LET subbed == [i \in DOMAIN name |->
                      IF \/ IsDigit(name[i]) \/ IsUpper(name[i])
                         \/ IsLower(name[i]) \/ name[i] = "_"
                      THEN name[i] ELSE "_"]
        led == IF IsDigit(subbed[1]) THEN <<"_">> \o subbed ELSE subbed
    IN  EscapeKeyword(led)

\* Names.ClassName raises exactly when __ToCamel or CleanName does.
ClassNameOK(name) ==
    \/ StartsWith(name, S_protorpc)
    \/ StartsWith(name, S_message_types)
    \/ /\ ToCamelOK(StripName(name))
       /\ CleanNameOK(ToCamel(StripName(name)))

\* Names.ClassName (of a name that is not None)
ClassName(name) ==
    IF StartsWith(name, S_protorpc) \/ StartsWith(name, S_message_types)
    THEN name
    ELSE CleanName(ToCamel(StripName(name)))

\* Names.NormalizeEnumName
NormalizeEnumName(enum_name) ==
    IF capitalize_enums THEN [i \in DOMAIN enum_name |-> Upper(enum_name[i])]
    ELSE enum_name

----------------------------------------------------------------------------
(* Schema documents                                                        *)

\* A description is a text, or the format string of a default description
\* with the name that fills its %s: 'A %s object.' % name.
Text(text) == [text |-> text, fmt |-> FALSE, arg |-> <<>>]

Format(text, arg) == [text |-> text, fmt |-> TRUE, arg |-> arg]

\* len() of a description; the %s of a format is replaced by its argument.
DescLen(d) == IF d.fmt THEN Len(d.text) - 2 + Len(d.arg) ELSE Len(d.text)

\* A schema node is a Python dict.  keys is the set of keys the dict holds;
\* a key that is absent keeps the neutral value below and is never read.
\* properties is the dict's item list in document order (keys distinct);
\* items and additionalProperties hold one node when present.
EmptyNode ==
    [keys |-> {}, id |-> <<>>, type |-> "", ref |-> <<>>, format |-> "",
     enum |-> <<>>, enumDescriptions |-> <<>>, items |-> <<>>,
     title |-> <<>>, properties |-> <<>>, additionalProperties |-> <<>>,
     required |-> FALSE, description |-> Text("")]

Has(attrs, k) == k \in attrs.keys

----------------------------------------------------------------------------
(* MessageRegistry: state                                                  *)

NoErr == "ok"

EmptyMap == [x \in {} |-> x]

\* extended_descriptor.ExtendedMessageDescriptor()
NewMessage(name) ==
    [kind |-> "message", name |-> name, full_name |-> <<>>,
     fields |-> <<>>, message_types |-> <<>>, enum_types |-> <<>>,
     decorators |-> <<>>, description |-> Text("")]

\* extended_descriptor.ExtendedEnumDescriptor()
NewEnum(name) ==
    [kind |-> "enum", name |-> name, full_name |-> <<>>, values |-> <<>>,
     description |-> Text("")]

\* MessageRegistry.__init__.  envs is the chain of messages entered by
\* __DescriptorEnv and not left; __current_env is its last element, or the
\* file descriptor when it is empty.  refs records every $ref the walk has
\* resolved, with the path it was seen at.  log records, in the order they
\* happen, the declarations, the fields appended and the registrations.
InitRegistry ==
    [file |-> [message_types |-> <<>>, enum_types |-> <<>>,
               additional_imports |-> <<"from protorpc import messages">>],
     registry |-> EmptyMap,
     nascent |-> {},
     unknown |-> {},
     path |-> <<>>,
     envs |-> <<>>,
     refs |-> {},
     log |-> <<>>,
     err |-> NoErr]

\* An entry of log: ev is "declare", "field" or "register"; name is the
\* full name declared or registered, or the path of the message a field is
\* appended to; field is the name of that field.
Event(ev, name, field) == [ev |-> ev, name |-> name, field |-> field]

Raise(S, e) == [S EXCEPT !.err = e]

\* MessageRegistry.__ComputeFullName
ComputeFullName(S, name) == Join(".", S.path \o <<name>>)

\* MessageRegistry.__AddImport
AddImport(S, new_import) ==
    IF new_import \in Range(S.file.additional_imports) THEN S
    ELSE [S EXCEPT !.file.additional_imports = Append(@, new_import)]

\* __DeclareDescriptor leaving the nascent set alone.
DeclareDescriptor_NotNascent(S, name) ==
    [S EXCEPT !.log = Append(@, Event("declare", ComputeFullName(S, name),
                                      <<>>))]

\* MessageRegistry.__DeclareDescriptor
DeclareDescriptor(S, name) ==
    [S EXCEPT !.nascent = @ \cup {ComputeFullName(S, name)},
              !.log = Append(@, Event("declare", ComputeFullName(S, name),
                                      <<>>))]

\* self.__current_env.message_types.append / enum_types.append
EnvAppend(S, d) ==
    LET top == Len(S.envs)
    IN  IF d.kind = "message"
        THEN IF top = 0
             THEN [S EXCEPT !.file.message_types = Append(@, d)]
             ELSE [S EXCEPT !.envs[top].message_types = Append(@, d)]
        ELSE IF top = 0
             THEN [S EXCEPT !.file.enum_types = Append(@, d)]
             ELSE [S EXCEPT !.envs[top].enum_types = Append(@, d)]

\* __RegisterDescriptor without the check for a registered full name.
RegisterDescriptor_Overwrite(S, new_descriptor) ==
    LET full_name == ComputeFullName(S, new_descriptor.name)
        d == [new_descriptor EXCEPT !.full_name = full_name]
    IN  IF full_name \notin S.nascent
        THEN Raise(S, "IllegalDirectRegistration")
        ELSE LET S1 == [S EXCEPT !.registry =
                           [n \in DOMAIN @ \cup {full_name} |->
                               IF n = full_name THEN d ELSE @[n]]]
                 S2 == EnvAppend(S1, d)
             IN  [S2 EXCEPT !.unknown = @ \ {full_name},
                            !.nascent = @ \ {full_name},
                            !.log = Append(@, Event("register", full_name,
                                                    <<>>))]

\* __RegisterDescriptor leaving the unknown set alone.
RegisterDescriptor_KeepUnknown(S, new_descriptor) ==
    LET full_name == ComputeFullName(S, new_descriptor.name)
        d == [new_descriptor EXCEPT !.full_name = full_name]
    IN  IF new_descriptor.kind \notin {"message", "enum"}
        THEN Raise(S, "CannotAddDescriptorOfType")
        ELSE IF full_name \in DOMAIN S.registry
        THEN Raise(S, "RedefinitionError")
        ELSE IF full_name \notin S.nascent
        THEN Raise(S, "IllegalDirectRegistration")
        ELSE LET S1 == [S EXCEPT !.registry =
                           [n \in DOMAIN @ \cup {full_name} |->
                               IF n = full_name THEN d ELSE @[n]]]
                 S2 == EnvAppend(S1, d)
             IN  [S2 EXCEPT !.nascent = @ \ {full_name},
                            !.log = Append(@, Event("register", full_name,
                                                    <<>>))]

\* MessageRegistry.__RegisterDescriptor
RegisterDescriptor(S, new_descriptor) ==
    LET full_name == ComputeFullName(S, new_descriptor.name)
        d == [new_descriptor EXCEPT !.full_name = full_name]
    IN  IF new_descriptor.kind \notin {"message", "enum"}
        THEN Raise(S, "CannotAddDescriptorOfType")
        ELSE IF full_name \in DOMAIN S.registry
        THEN Raise(S, "RedefinitionError")
        ELSE IF full_name \notin S.nascent
        THEN Raise(S, "IllegalDirectRegistration")
        ELSE LET S1 == [S EXCEPT !.registry =
                           [n \in DOMAIN @ \cup {full_name} |->
                               IF n = full_name THEN d ELSE @[n]]]
                 S2 == EnvAppend(S1, d)
             IN  [S2 EXCEPT !.unknown = @ \ {full_name},
                            !.nascent = @ \ {full_name},
                            !.log = Append(@, Event("register", full_name,
                                                    <<>>))]

\* __GetDescriptorByName without the check of the nascent set.
GetDescriptorByName_NoNascentCheck(S, name) ==
    IF name \in DOMAIN S.registry
    THEN [err |-> NoErr, found |-> TRUE, desc |-> S.registry[name]]
    ELSE [err |-> NoErr, found |-> FALSE, desc |-> NewMessage(<<>>)]

\* MessageRegistry.__GetDescriptorByName: found is FALSE for None.
GetDescriptorByName(S, name) ==
    IF name \in DOMAIN S.registry
    THEN [err |-> NoErr, found |-> TRUE, desc |-> S.registry[name]]
    ELSE IF name \in S.nascent
    THEN [err |-> "InProgressReferenceError", found |-> FALSE,
          desc |-> NewMessage(<<>>)]
    ELSE [err |-> NoErr, found |-> FALSE, desc |-> NewMessage(<<>>)]

\* MessageRegistry.__GetDescriptor
GetDescriptor(S, name) == GetDescriptorByName(S, ComputeFullName(S, name))

\* LookupDescriptor trying the path-qualified name before the bare one.
LookupDescriptor_PathFirst(S, name) ==
    LET qualified == GetDescriptorByName(S, ComputeFullName(S, name))
    IN  IF qualified.found THEN qualified ELSE GetDescriptorByName(S, name)

\* MessageRegistry.LookupDescriptor
LookupDescriptor(S, name) == GetDescriptorByName(S, name)

\* MessageRegistry.LookupDescriptorOrDie
LookupDescriptorOrDie(S, name) ==
    LET message_descriptor == LookupDescriptor(S, name)
    IN  IF message_descriptor.err # NoErr THEN message_descriptor
        ELSE IF ~message_descriptor.found
        THEN [message_descriptor EXCEPT !.err = "UnresolvedTypeReference"]
        ELSE message_descriptor

\* Validate looking at the nascent set only.
Validate_NascentOnly(S) ==
    IF S.nascent # {}
    THEN [err |-> "Malformed", names |-> S.nascent]
    ELSE [err |-> NoErr, names |-> {}]

\* MessageRegistry.Validate: the error carries `nascent or unknown`.
Validate(S) ==
    LET mysteries == IF S.nascent # {} THEN S.nascent ELSE S.unknown
    IN  IF mysteries # {}
        THEN [err |-> "Malformed", names |-> mysteries]
        ELSE [err |-> NoErr, names |-> {}]

\* __DescriptorEnv registering the message as it is entered, before any of
\* its fields is built.
EnterEnv_RegisterFirst(S, message_descriptor) ==
    [RegisterDescriptor(S, message_descriptor) EXCEPT
        !.path = Append(@, message_descriptor.name),
        !.envs = Append(@, message_descriptor)]

\* __DescriptorEnv, up to the yield
EnterEnv(S, message_descriptor) ==
    [S EXCEPT !.path = Append(@, message_descriptor.name),
              !.envs = Append(@, message_descriptor)]

\* __DescriptorEnv, after the yield (not run when the body raises)
ExitEnv(S) ==
    [S EXCEPT !.path = SubSeq(@, 1, Len(@) - 1),
              !.envs = SubSeq(@, 1, Len(@) - 1)]

\* The message the with-block of AddDescriptorFromSchema is filling.
CurrentMessage(S) == S.envs[Len(S.envs)]

\* The loop of AddEnumDescriptor with every value given the tag 1.
RECURSIVE EnumValues_SameTag(_, _, _)
EnumValues_SameTag(enum_values, enum_descriptions, index) ==
    IF enum_values = <<>> \/ enum_descriptions = <<>> THEN <<>>
    ELSE <<[name |-> NormalizeEnumName(enum_values[1]), number |-> 1,
            description |-> Text(enum_descriptions[1])]>>
             \o EnumValues_SameTag(Tail(enum_values), Tail(enum_descriptions),
                                   index + 1)

\* MessageRegistry.AddEnumDescriptor
RECURSIVE EnumValues(_, _, _)
EnumValues(enum_values, enum_descriptions, index) ==
    IF enum_values = <<>> \/ enum_descriptions = <<>> THEN <<>>
    ELSE <<[name |-> NormalizeEnumName(enum_values[1]), number |-> index,
            description |-> IF enum_descriptions[1] = ""
                            THEN Text("<no description>")
                            ELSE Text(enum_descriptions[1])]>>
             \o EnumValues(Tail(enum_values), Tail(enum_descriptions),
                           index + 1)

AddEnumDescriptor(S, name, description, enum_values, enum_descriptions) ==
    IF ~ClassNameOK(name) THEN Raise(S, "IndexError")
    ELSE LET message == [NewEnum(ClassName(name)) EXCEPT
                            !.description = description,
                            !.values = EnumValues(enum_values,
                                                  enum_descriptions, 0)]
         IN  RegisterDescriptor(DeclareDescriptor(S, message.name), message)

\* __ComputeLabel looking at the type before the required mark.
ComputeLabel_ArrayFirst(attrs) ==
    IF Has(attrs, "type") /\ attrs.type = "array" THEN "REPEATED"
    ELSE IF Has(attrs, "required") /\ attrs.required THEN "REQUIRED"
    ELSE "OPTIONAL"

\* MessageRegistry.__ComputeLabel
ComputeLabel(attrs) ==
    IF Has(attrs, "required") /\ attrs.required THEN "REQUIRED"
    ELSE IF Has(attrs, "type") /\ attrs.type = "array" THEN "REPEATED"
    ELSE "OPTIONAL"

\* MessageRegistry.PRIMITIVE_TYPE_INFO_MAP
PRIMITIVE_TYPE_INFO_MAP ==
    [string |-> [type_name |-> S_string, variant |-> "STRING"],
     integer |-> [type_name |-> S_integer, variant |-> "INT64"],
     boolean |-> [type_name |-> S_boolean, variant |-> "BOOL"],
     number |-> [type_name |-> S_number, variant |-> "DOUBLE"]]

\* MessageRegistry.PRIMITIVE_FORMAT_MAP
PRIMITIVE_FORMAT_MAP ==
    [int32 |-> [type_name |-> S_integer, variant |-> "INT32"],
     uint32 |-> [type_name |-> S_integer, variant |-> "UINT32"],
     int64 |-> [type_name |-> S_string, variant |-> "INT64"],
     uint64 |-> [type_name |-> S_string, variant |-> "UINT64"],
     double |-> [type_name |-> S_number, variant |-> "DOUBLE"],
     float |-> [type_name |-> S_number, variant |-> "FLOAT"],
     byte |-> [type_name |-> S_byte, variant |-> "BYTES"],
     date |-> [type_name |-> S_DateTimeMessage, variant |-> "MESSAGE"],
     date_time |-> [type_name |-> S_DateTimeMessage, variant |-> "MESSAGE"]]

\* The key of PRIMITIVE_FORMAT_MAP a format token selects.
FormatKey(format) == IF format = "date-time" THEN "date_time" ELSE format

\* sorted(properties.iteritems()): insertion sort on the keys.
RECURSIVE InsertItem(_, _)
InsertItem(sorted, item) ==
    IF sorted = <<>> THEN <<item>>
    ELSE IF StrLess(item[1], sorted[1][1]) THEN <<item>> \o sorted
    ELSE <<sorted[1]>> \o InsertItem(Tail(sorted), item)

\* The properties taken in document order.
SortedItems_DocumentOrder(items) == items

RECURSIVE SortedItems(_)
SortedItems(items) ==
    IF items = <<>> THEN <<>>
    ELSE InsertItem(SortedItems(SubSeq(items, 1, Len(items) - 1)),
                    items[Len(items)])

\* AddIfUnknown recording the path-qualified name.
AddIfUnknown_Qualified(S, name) ==
    IF S.err # NoErr THEN S
    ELSE IF ~ClassNameOK(name) THEN Raise(S, "IndexError")
    ELSE LET type_name == ClassName(name)
             full_type_name == ComputeFullName(S, type_name)
         IN  IF /\ full_type_name \notin DOMAIN S.registry
                /\ type_name \notin DOMAIN S.registry
             THEN [S EXCEPT !.unknown = @ \cup {full_type_name}]
             ELSE S

\* AddIfUnknown, the closure of __GetTypeInfo
AddIfUnknown(S, name) ==
    IF S.err # NoErr THEN S
    ELSE IF ~ClassNameOK(name) THEN Raise(S, "IndexError")
    ELSE LET type_name == ClassName(name)
             full_type_name == ComputeFullName(S, type_name)
         IN  IF /\ full_type_name \notin DOMAIN S.registry
                /\ type_name \notin DOMAIN S.registry
             THEN [S EXCEPT !.unknown = @ \cup {type_name}]
             ELSE S

NoType == [type_name |-> <<>>, variant |-> ""]

\* An operator below that takes the registry S after a call that can raise
\* does nothing when S.err is set: the exception is passing through it.

\* message.fields.append(field) on the message being filled
AppendField(r) ==
    IF r.st.err # NoErr THEN r.st
    ELSE [r.st EXCEPT !.envs[Len(r.st.envs)].fields = Append(@, r.field),
                      !.log = Append(@, Event("field", Join(".", r.st.path),
                                              r.field.name))]

RECURSIVE AddDescriptorFromSchema(_, _, _)
RECURSIVE AddAdditionalPropertyType(_, _, _)
RECURSIVE FieldDescriptorFromProperties(_, _, _, _)
RECURSIVE GetTypeInfo(_, _, _)
RECURSIVE AddFields(_, _, _)

\* A TypeInfo returned in registry state S.
Typed(S, type_name, variant) ==
    [st |-> S, ti |-> [type_name |-> type_name, variant |-> variant]]

\* The format branch of __GetTypeInfo
FormatTypeInfo(S, attrs) ==
    IF FormatKey(attrs.format) \notin DOMAIN PRIMITIVE_FORMAT_MAP
    \* type_info is None and type_info.type_name is read first
    THEN [st |-> Raise(S, "AttributeError"), ti |-> NoType]
    ELSE [st |-> IF \/ StartsWith(
                         PRIMITIVE_FORMAT_MAP[FormatKey(attrs.format)].type_name,
                         S_protorpc \o S_message_types)
                    \/ StartsWith(
                         PRIMITIVE_FORMAT_MAP[FormatKey(attrs.format)].type_name,
                         S_message_types)
                 THEN AddImport(S, "from protorpc import message_types")
                 ELSE S,
          ti |-> PRIMITIVE_FORMAT_MAP[FormatKey(attrs.format)]]

\* item_name_hint of the array branch of __GetTypeInfo, before ClassName
ItemNameHint(items, name_hint) ==
    IF Has(items, "title") /\ items.title # <<>> THEN items.title
    ELSE name_hint \o S_ListEntry

\* MessageRegistry.__GetTypeInfo.  Returns the registry state and the
\* TypeInfo; when st.err is set the call has raised and ti is meaningless.
GetTypeInfo(S, attrs, name_hint) ==
    IF Has(attrs, "$ref") /\ ~ClassNameOK(attrs.ref)
    THEN [st |-> Raise(S, "IndexError"), ti |-> NoType]
    ELSE IF ~(Has(attrs, "$ref") \/ (Has(attrs, "type") /\ attrs.type # ""))
    THEN [st |-> Raise(S, "UnsupportedSchemaType"), ti |-> NoType]
    ELSE IF Has(attrs, "$ref")
    THEN Typed(AddIfUnknown(
                   [S EXCEPT !.refs = @ \cup {<<S.path, ClassName(attrs.ref)>>}],
                   ClassName(attrs.ref)),
               ClassName(attrs.ref), "MESSAGE")
    ELSE IF Has(attrs, "enum")
    THEN IF ~Has(attrs, "enumDescriptions")
         THEN [st |-> Raise(S, "KeyError"), ti |-> NoType]
         ELSE Typed(AddIfUnknown(
                        AddEnumDescriptor(S, name_hint \o S_ValuesEnum,
                                          IF Has(attrs, "description")
                                          THEN attrs.description ELSE Text(""),
                                          attrs.enum, attrs.enumDescriptions),
                        name_hint \o S_ValuesEnum),
                    name_hint \o S_ValuesEnum, "ENUM")
    ELSE IF Has(attrs, "format") THEN FormatTypeInfo(S, attrs)
    ELSE IF attrs.type \in DOMAIN PRIMITIVE_TYPE_INFO_MAP
    THEN [st |-> S, ti |-> PRIMITIVE_TYPE_INFO_MAP[attrs.type]]
    ELSE IF attrs.type = "array"
    THEN IF ~Has(attrs, "items") \/ attrs.items[1].keys = {}
         THEN [st |-> Raise(S, "ArrayWithNoItemType"), ti |-> NoType]
         ELSE IF ~ClassNameOK(ItemNameHint(attrs.items[1], name_hint))
         THEN [st |-> Raise(S, "IndexError"), ti |-> NoType]
         ELSE GetTypeInfo(S, attrs.items[1],
                          ClassName(ItemNameHint(attrs.items[1], name_hint)))
    ELSE IF attrs.type = "any"
    THEN [st |-> S, ti |-> PRIMITIVE_TYPE_INFO_MAP["string"]]
    ELSE IF attrs.type = "object"
    THEN IF name_hint = <<>>
         THEN [st |-> Raise(S, "NoNameHint"), ti |-> NoType]
         ELSE Typed(AddIfUnknown(
                        AddDescriptorFromSchema(
                            S, name_hint,
                            [attrs EXCEPT !.keys = @ \cup {"id"},
                                          !.id = name_hint]),
                        name_hint),
                    name_hint, "MESSAGE")
    ELSE [st |-> Raise(S, "UnsupportedSchemaType"), ti |-> NoType]

\* The field __FieldDescriptorFromProperties builds from the TypeInfo r.ti.
MakeField(r, name, index, attrs) ==
    [st |-> r.st,
     field |-> [name |-> CleanName(name),
                number |-> index,
                label |-> ComputeLabel(attrs),
                type_name |-> r.ti.type_name,
                variant |-> r.ti.variant,
                description |->
                    IF Has(attrs, "description") THEN attrs.description
                    ELSE Format("A %s attribute.", r.ti.type_name)]]

\* MessageRegistry.__FieldDescriptorFromProperties.  Returns the registry
\* state and the field; when st.err is set the field is meaningless.
FieldDescriptorFromProperties(S, name, index, attrs) ==
    IF S.err # NoErr THEN [st |-> S, field |-> NoType]
    ELSE IF ~CleanNameOK(name) \/ ~ClassNameOK(name)
    THEN [st |-> Raise(S, "IndexError"), field |-> NoType]
    ELSE IF ~ClassNameOK(ClassName(name) \o S_Value)
    THEN [st |-> Raise(S, "IndexError"), field |-> NoType]
    ELSE MakeField(GetTypeInfo(S, attrs,
                               ClassName(ClassName(name) \o S_Value)),
                   name, index, attrs)

\* The loop of AddDescriptorFromSchema over the sorted properties; it stops
\* at the first property that raises.
AddFields(S, items, number) ==
    IF S.err # NoErr \/ items = <<>> THEN S
    ELSE AddFields(
             AppendField(FieldDescriptorFromProperties(
                             S, items[1][1], number, items[1][2])),
             Tail(items), number + 1)

\* __AddAdditionalPropertyType keeping the description of the clause.
AddAdditionalPropertyType_KeepDescription(S, name, property_schema) ==
    AddDescriptorFromSchema(
        S, S_AdditionalProperty,
        [EmptyNode EXCEPT
            !.keys = {"id", "type", "description", "properties"},
            !.id = S_AdditionalProperty,
            !.type = "object",
            !.description =
                Format("An additional property for a %s object.", name),
            !.properties =
                << <<S_key, [EmptyNode EXCEPT
                                !.keys = {"type", "description"},
                                !.type = "string",
                                !.description =
                                    Text("Name of the additional property.")]>>,
                   <<S_value, property_schema>> >>])

\* MessageRegistry.__AddAdditionalPropertyType: the type name it returns is
\* always S_AdditionalProperty.
AddAdditionalPropertyType(S, name, property_schema) ==
    AddDescriptorFromSchema(
        S, S_AdditionalProperty,
        [EmptyNode EXCEPT
            !.keys = {"id", "type", "description", "properties"},
            !.id = S_AdditionalProperty,
            !.type = "object",
            !.description =
                Format("An additional property for a %s object.", name),
            !.properties =
                << <<S_key, [EmptyNode EXCEPT
                                !.keys = {"type", "description"},
                                !.type = "string",
                                !.description =
                                    Text("Name of the additional property.")]>>,
                   <<S_value, [property_schema EXCEPT
                                  !.keys = @ \ {"description"}]>> >>])

\* The constructor arguments the registry keeps.
base_files_package == "googlecloudapis.apitools.base.py"

package == "pkg"

version == "v1"

description == Text("An API.")

\* 'from %s import encoding' % self.__base_files_package
EncodingImport == "from " \o base_files_package \o " import encoding"

\* self.__AddImport(...encoding) and message.decorators.append(...)
AddEncodingDecorator(S) ==
    IF S.err # NoErr THEN S
    ELSE [AddImport(S, EncodingImport) EXCEPT
             !.envs[Len(S.envs)].decorators =
                 Append(@, "encoding.MapUnrecognizedFields('additionalProperties')")]

\* The additionalProperties branch of AddDescriptorFromSchema.
AddAdditionalProperties(S, message_name, schema, properties) ==
    IF S.err # NoErr \/ ~Has(schema, "additionalProperties") THEN S
    ELSE AddEncodingDecorator(
             AppendField(FieldDescriptorFromProperties(
                 AddAdditionalPropertyType(S, message_name,
                                           schema.additionalProperties[1]),
                 S_additionalProperties,
                 Len(properties) + 1,
                 [EmptyNode EXCEPT
                     !.keys = {"items", "description", "type"},
                     !.description =
                         IF Has(schema.additionalProperties[1], "description")
                         THEN schema.additionalProperties[1].description
                         ELSE Format("Additional properties of type %s",
                                     message_name),
                     !.type = "array",
                     !.items = <<[EmptyNode EXCEPT
                                     !.keys = {"$ref"},
                                     !.ref = S_AdditionalProperty]>>])))

\* The end of AddDescriptorFromSchema: the with-block is left and the
\* message registered.
LeaveAndRegister(S) ==
    IF S.err # NoErr THEN S
    ELSE RegisterDescriptor(ExitEnv(S), CurrentMessage(S))

\* schema.get('properties', {})
PropertiesOf(schema) ==
    IF Has(schema, "properties") THEN schema.properties ELSE <<>>

\* The message AddDescriptorFromSchema creates, before its fields are added.
MessageFromSchema(schema) ==
    [NewMessage(ClassName(schema.id)) EXCEPT
        !.description = IF Has(schema, "description") THEN schema.description
                        ELSE Format("A %s object.", ClassName(schema.id))]

\* MessageRegistry.AddDescriptorFromSchema
AddDescriptorFromSchema(S, schema_name, schema) ==
    IF S.err # NoErr THEN S
    ELSE IF GetDescriptor(S, schema_name).err # NoErr
    THEN Raise(S, GetDescriptor(S, schema_name).err)
    ELSE IF GetDescriptor(S, schema_name).found THEN S
    ELSE IF ~(Has(schema, "type") /\ schema.type \in {"object", "any"})
    THEN Raise(S, "UnsupportedSchemaType")
    ELSE IF ~Has(schema, "id") THEN Raise(S, "KeyError")
    ELSE IF ~ClassNameOK(schema.id) THEN Raise(S, "IndexError")
    ELSE LeaveAndRegister(
             AddAdditionalProperties(
                 AddFields(
                     EnterEnv(DeclareDescriptor(S, ClassName(schema.id)),
                              MessageFromSchema(schema)),
                     SortedItems(PropertiesOf(schema)), 1),
                 ClassName(schema.id), schema, PropertiesOf(schema)))

----------------------------------------------------------------------------
(* extended_descriptor: the two printers                                   *)

\* A line handed to SimplePrettyPrinter: indent is the number of Indent()
\* blocks it is printed in, prefix the comment mark in front of it, and the
\* other fields are the values its format string is filled with.  A
\* description is printed as one line (textwrap is not modelled).
Line(indent, kind) ==
    [indent |-> indent, kind |-> kind, prefix |-> "", name |-> <<>>,
     number |-> 0, text |-> Text(""), label |-> "", variant |-> "",
     type_name |-> <<>>]

\* printer() with no argument
Blank == Line(0, "blank")

\* SimplePrettyPrinter.CalculateWidth, for an indent of two characters
CalculateWidth(indent) == 78 - 2 * indent

\* sorted(ls, key=operator.attrgetter('name')): a stable insertion sort.
RECURSIVE InsertByName(_, _)
InsertByName(sorted, d) ==
    IF sorted = <<>> THEN <<d>>
    ELSE IF StrLess(d.name, sorted[1].name) THEN <<d>> \o sorted
    ELSE <<sorted[1]>> \o InsertByName(Tail(sorted), d)

RECURSIVE SortedByName(_)

\* The descriptors in the order they were appended.
SortedByName_Stored(ls) == ls

SortedByName(ls) ==
    IF ls = <<>> THEN <<>>
    ELSE InsertByName(SortedByName(SubSeq(ls, 1, Len(ls) - 1)), ls[Len(ls)])

\* sorted(enum_type.values, key=operator.attrgetter('number'))
RECURSIVE InsertByNumber(_, _)
InsertByNumber(sorted, v) ==
    IF sorted = <<>> THEN <<v>>
    ELSE IF v.number < sorted[1].number THEN <<v>> \o sorted
    ELSE <<sorted[1]>> \o InsertByNumber(Tail(sorted), v)

RECURSIVE SortedByNumber(_)

\* The values in the order they were appended.
SortedByNumber_Stored(values) == values

SortedByNumber(values) ==
    IF values = <<>> THEN <<>>
    ELSE InsertByNumber(SortedByNumber(SubSeq(values, 1, Len(values) - 1)),
                        values[Len(values)])

\* The loop of PrintIndentedDescriptions
RECURSIVE DescriptionItems(_, _, _)
DescriptionItems(ls, prefix, indent) ==
    IF ls = <<>> THEN <<>>
    ELSE <<[Line(indent, "item") EXCEPT !.prefix = prefix,
                                        !.name = ls[1].name,
                                        !.text = ls[1].description]>>
             \o DescriptionItems(Tail(ls), prefix, indent)

\* extended_descriptor.PrintIndentedDescriptions
PrintIndentedDescriptions(ls, name, prefix, indent) ==
    IF ls = <<>> THEN <<>>
    ELSE << IF prefix = "" THEN Blank
            ELSE [Line(indent, "empty") EXCEPT !.prefix = prefix],
            [Line(indent, "list") EXCEPT !.prefix = prefix,
                                         !.text = Text(name)] >>
             \o DescriptionItems(ls, prefix, indent)

\* extended_descriptor._EmptyMessage
EmptyMessage(message_type) ==
    /\ message_type.enum_types = <<>>
    /\ message_type.message_types = <<>>
    /\ message_type.fields = <<>>

\* description or '%s enum type.' / '%s message type.'
DescriptionOr(d, default) ==
    IF d.description.text = "" THEN Format(default, d.name) ELSE d.description

\* messages.Field.lookup_field_type_by_variant is EnumField or MessageField
IsNamedType(field) == field.variant \in {"ENUM", "MESSAGE"}

\* The loop of _Proto2Printer.PrintEnum over the sorted values
RECURSIVE Proto2_EnumValues(_, _)
Proto2_EnumValues(enum_values, indent) ==
    IF enum_values = <<>> THEN <<>>
    ELSE <<Blank>>
         \o (IF enum_values[1].description.text = "" THEN <<>>
             ELSE <<[Line(indent, "comment") EXCEPT
                        !.prefix = "// ",
                        !.text = enum_values[1].description]>>)
         \o <<[Line(indent, "value") EXCEPT
                  !.name = enum_values[1].name,
                  !.number = enum_values[1].number]>>
         \o Proto2_EnumValues(Tail(enum_values), indent)

\* _Proto2Printer.PrintEnum
Proto2_PrintEnum(enum_type, indent) ==
    <<[Line(indent, "comment") EXCEPT
          !.prefix = "// ",
          !.text = DescriptionOr(enum_type, "%s enum type.")]>>
    \o PrintIndentedDescriptions(enum_type.values, "Values", "// ", indent)
    \o <<[Line(indent, "enum") EXCEPT !.name = enum_type.name]>>
    \o Proto2_EnumValues(SortedByNumber(enum_type.values), indent + 1)
    \o <<Line(indent, "close"), Blank>>

\* _Proto2Printer.PrintPreamble
Proto2_PrintPreamble(file_descriptor) ==
    <<[Line(0, "comment") EXCEPT
          !.prefix = "// ",
          !.text = Text("Generated message classes for " \o package
                        \o " version " \o version \o ".")]>>
    \o (IF description.text = "" THEN <<>>
        ELSE <<[Line(0, "empty") EXCEPT !.prefix = "//"],
               [Line(0, "comment") EXCEPT !.prefix = "// ",
                                          !.text = description]>>)
    \o <<Blank,
         [Line(0, "syntax") EXCEPT !.text = Text("proto2")],
         [Line(0, "package") EXCEPT !.text = Text(package)]>>

\* _Proto2Printer.__PrintMessageCommentLines
Proto2_PrintMessageCommentLines(message_type, indent) ==
    <<[Line(indent, "comment") EXCEPT
          !.prefix = "// ",
          !.text = DescriptionOr(message_type, "%s message type.")]>>
    \o PrintIndentedDescriptions(message_type.enum_types, "Enums", "// ",
                                 indent)
    \o PrintIndentedDescriptions(message_type.message_types, "Messages",
                                 "// ", indent)
    \o PrintIndentedDescriptions(message_type.fields, "Fields", "// ",
                                 indent)

\* _Proto2Printer.__PrintFields (no field of the registry has a default)
RECURSIVE Proto2_PrintFields(_, _)
Proto2_PrintFields(fields, indent) ==
    IF fields = <<>> THEN <<>>
    ELSE <<Blank>>
         \o (IF fields[1].description.text = "" THEN <<>>
             ELSE <<[Line(indent, "comment") EXCEPT
                        !.prefix = "// ",
                        !.text = fields[1].description]>>)
         \o <<[Line(indent, "field") EXCEPT
                  !.label = fields[1].label,
                  !.variant = IF IsNamedType(fields[1]) THEN ""
                              ELSE fields[1].variant,
                  !.type_name = IF IsNamedType(fields[1])
                                THEN fields[1].type_name ELSE <<>>,
                  !.name = fields[1].name,
                  !.number = fields[1].number]>>
         \o Proto2_PrintFields(Tail(fields), indent)

RECURSIVE Proto2_PrintMessage(_, _)
RECURSIVE Proto2_PrintMessages(_, _)

\* _PrintEnums with a _Proto2Printer, over the sorted list
RECURSIVE Proto2_EachEnum(_, _)
Proto2_EachEnum(enum_types, indent) ==
    IF enum_types = <<>> THEN <<>>
    ELSE Proto2_PrintEnum(enum_types[1], indent)
             \o Proto2_EachEnum(Tail(enum_types), indent)

\* _PrintEnums with a _Proto2Printer
Proto2_PrintEnums(enum_types, indent) ==
    Proto2_EachEnum(SortedByName(enum_types), indent)

\* _Proto2Printer.PrintMessage
Proto2_PrintMessage(message_type, indent) ==
    <<Blank>>
    \o Proto2_PrintMessageCommentLines(message_type, indent)
    \o (IF EmptyMessage(message_type)
        THEN <<[Line(indent, "emptymessage") EXCEPT
                   !.name = message_type.name]>>
        ELSE <<[Line(indent, "message") EXCEPT !.name = message_type.name]>>
             \o Proto2_PrintEnums(message_type.enum_types, indent + 1)
             \o Proto2_PrintMessages(message_type.message_types, indent + 1)
             \o Proto2_PrintFields(message_type.fields, indent + 1)
             \o <<Line(indent, "close")>>)

\* _PrintMessages with a _Proto2Printer, over the sorted list
RECURSIVE Proto2_EachMessage(_, _)
Proto2_EachMessage(message_list, indent) ==
    IF message_list = <<>> THEN <<>>
    ELSE Proto2_PrintMessage(message_list[1], indent)
             \o Proto2_EachMessage(Tail(message_list), indent)

\* _PrintMessages with a _Proto2Printer
Proto2_PrintMessages(message_list, indent) ==
    Proto2_EachMessage(SortedByName(message_list), indent)

\* extended_descriptor.WriteMessagesFile: _WriteFile with a _Proto2Printer
WriteMessagesFile(file_descriptor) ==
    Proto2_PrintPreamble(file_descriptor)
    \o Proto2_PrintEnums(file_descriptor.enum_types, 0)
    \o Proto2_PrintMessages(file_descriptor.message_types, 0)

\* _ProtoRpcPrinter.__PrintClassSeparator
ProtoRpc_PrintClassSeparator(indent) ==
    IF indent = 0 THEN <<Blank, Blank>> ELSE <<Blank>>

\* The loop of _ProtoRpcPrinter.PrintEnum over the sorted values
RECURSIVE ProtoRpc_EnumValues(_, _)
ProtoRpc_EnumValues(enum_values, indent) ==
    IF enum_values = <<>> THEN <<>>
    ELSE <<[Line(indent, "value") EXCEPT
               !.name = enum_values[1].name,
               !.number = enum_values[1].number]>>
         \o ProtoRpc_EnumValues(Tail(enum_values), indent)

\* _ProtoRpcPrinter.PrintEnum with __PrintEnumDocstringLines
ProtoRpc_PrintEnum(enum_type, indent) ==
    <<[Line(indent, "enum") EXCEPT !.name = enum_type.name],
      [Line(indent + 1, "docstring") EXCEPT
          !.text = DescriptionOr(enum_type, "%s enum type.")]>>
    \o PrintIndentedDescriptions(enum_type.values, "Values", "", indent + 1)
    \o <<Line(indent + 1, "enddocstring")>>
    \o ProtoRpc_EnumValues(SortedByNumber(enum_type.values), indent + 1)
    \o (IF enum_type.values = <<>> THEN <<Line(indent + 1, "pass")>>
        ELSE <<>>)
    \o ProtoRpc_PrintClassSeparator(indent)

\* Every import the registry can record, in the ascending order of sorted().
ImportsInOrder ==
    <<EncodingImport, "from protorpc import message_types",
      "from protorpc import messages">>

\* 'google' in x
HasGoogle(x) == x = EncodingImport

\* The import lines of one group
RECURSIVE ImportLines(_)
ImportLines(imports) ==
    IF imports = <<>> THEN <<>>
    ELSE <<[Line(0, "import") EXCEPT !.text = Text(imports[1])]>>
             \o ImportLines(Tail(imports))

\* The imports in the order they were recorded.
SortedImports_Stored(imports) == imports

\* sorted(imports), for a list without duplicates
SortedImports(imports) ==
    LET IsRecorded(x) == x \in Range(imports) IN
    SelectSeq(ImportsInOrder, IsRecorded)

\* _ProtoRpcPrinter.__PrintAdditionalImports
ProtoRpc_PrintAdditionalImports(imports) ==
    LET IsOther(x) == ~HasGoogle(x)
        google_imports == SelectSeq(imports, HasGoogle)
        other_imports == SelectSeq(imports, IsOther)
    IN  (IF other_imports = <<>> THEN <<>>
         ELSE ImportLines(SortedImports(other_imports)) \o <<Blank>>)
        \o (IF google_imports = <<>> THEN <<>>
            ELSE ImportLines(SortedImports(google_imports)) \o <<Blank>>)

\* _ProtoRpcPrinter.PrintPreamble
ProtoRpc_PrintPreamble(file_descriptor) ==
    <<[Line(0, "docstring") EXCEPT
          !.text = Text("Generated message classes for " \o package
                        \o " version " \o version \o ".")],
      Blank>>
    \o (IF description.text = "" THEN <<>>
        ELSE <<[Line(0, "text") EXCEPT !.text = description]>>)
    \o <<Line(0, "enddocstring"), Blank>>
    \o ProtoRpc_PrintAdditionalImports(file_descriptor.additional_imports)
    \o <<Blank, [Line(0, "package") EXCEPT !.text = Text(package)],
         Blank, Blank>>

\* _ProtoRpcPrinter.__PrintMessageDocstringLines, printed one Indent() deep
ProtoRpc_PrintMessageDocstringLines(message_type, indent) ==
    IF /\ EmptyMessage(message_type)
       /\ DescLen(DescriptionOr(message_type, "%s message type."))
              < CalculateWidth(indent) - 6
    THEN <<[Line(indent, "shortdocstring") EXCEPT
               !.text = DescriptionOr(message_type, "%s message type.")]>>
    ELSE <<[Line(indent, "docstring") EXCEPT
               !.text = DescriptionOr(message_type, "%s message type.")]>>
         \o PrintIndentedDescriptions(message_type.enum_types, "Enums", "",
                                      indent)
         \o PrintIndentedDescriptions(message_type.message_types, "Messages",
                                      "", indent)
         \o PrintIndentedDescriptions(message_type.fields, "Fields", "",
                                      indent)
         \o <<Line(indent, "enddocstring"), Blank>>

\* extended_descriptor._MESSAGE_FIELD_MAP
MESSAGE_FIELD_MAP == {S_DateTimeMessage}

\* messages.Field.lookup_field_type_by_variant, by the name of the class
FieldType(variant) ==
    CASE variant = "STRING" -> "StringField"
      [] variant \in {"INT32", "UINT32", "INT64", "UINT64"} -> "IntegerField"
      [] variant = "BOOL" -> "BooleanField"
      [] variant \in {"DOUBLE", "FLOAT"} -> "FloatField"
      [] variant = "BYTES" -> "BytesField"
      [] variant = "ENUM" -> "EnumField"
      [] OTHER -> "MessageField"

\* field_type.DEFAULT_VARIANT
DEFAULT_VARIANT(field_type) ==
    CASE field_type = "StringField" -> "STRING"
      [] field_type = "IntegerField" -> "INT64"
      [] field_type = "BooleanField" -> "BOOL"
      [] field_type = "FloatField" -> "DOUBLE"
      [] field_type = "BytesField" -> "BYTES"
      [] field_type = "EnumField" -> "ENUM"
      [] OTHER -> "MESSAGE"

\* extended_descriptor._PrintFields (no field of the registry has a default)
RECURSIVE PrintFields(_, _)
PrintFields(fields, indent) ==
    IF fields = <<>> THEN <<>>
    ELSE <<[Line(indent, "field") EXCEPT
               !.name = fields[1].name,
               !.text = IF fields[1].type_name \in MESSAGE_FIELD_MAP
                        THEN Text("message_types.DateTimeField")
                        ELSE Text("messages."
                                  \o FieldType(fields[1].variant)),
               !.type_name = IF /\ fields[1].type_name \notin MESSAGE_FIELD_MAP
                                /\ IsNamedType(fields[1])
                             THEN fields[1].type_name ELSE <<>>,
               !.number = fields[1].number,
               !.label = IF fields[1].label = "OPTIONAL" THEN ""
                         ELSE fields[1].label,
               !.variant =
                   IF \/ fields[1].type_name \in MESSAGE_FIELD_MAP
                      \/ DEFAULT_VARIANT(FieldType(fields[1].variant))
                             = fields[1].variant
                   THEN "" ELSE fields[1].variant]>>
         \o PrintFields(Tail(fields), indent)

\* The decorator lines of _ProtoRpcPrinter.PrintMessage
RECURSIVE DecoratorLines(_, _)
DecoratorLines(decorators, indent) ==
    IF decorators = <<>> THEN <<>>
    ELSE <<[Line(indent, "decorator") EXCEPT !.text = Text(decorators[1])]>>
             \o DecoratorLines(Tail(decorators), indent)

RECURSIVE ProtoRpc_PrintMessage(_, _)
RECURSIVE ProtoRpc_PrintMessages(_, _)

\* _PrintEnums with a _ProtoRpcPrinter, over the sorted list
RECURSIVE ProtoRpc_EachEnum(_, _)
ProtoRpc_EachEnum(enum_types, indent) ==
    IF enum_types = <<>> THEN <<>>
    ELSE ProtoRpc_PrintEnum(enum_types[1], indent)
             \o ProtoRpc_EachEnum(Tail(enum_types), indent)

\* _PrintEnums with a _ProtoRpcPrinter
ProtoRpc_PrintEnums(enum_types, indent) ==
    ProtoRpc_EachEnum(SortedByName(enum_types), indent)

\* _ProtoRpcPrinter.PrintMessage
ProtoRpc_PrintMessage(message_type, indent) ==
    DecoratorLines(message_type.decorators, indent)
    \o <<[Line(indent, "message") EXCEPT !.name = message_type.name]>>
    \o ProtoRpc_PrintMessageDocstringLines(message_type, indent + 1)
    \o ProtoRpc_PrintEnums(message_type.enum_types, indent + 1)
    \o ProtoRpc_PrintMessages(message_type.message_types, indent + 1)
    \o PrintFields(message_type.fields, indent + 1)
    \o ProtoRpc_PrintClassSeparator(indent)

\* _PrintMessages with a _ProtoRpcPrinter, over the sorted list
RECURSIVE ProtoRpc_EachMessage(_, _)
ProtoRpc_EachMessage(message_list, indent) ==
    IF message_list = <<>> THEN <<>>
    ELSE ProtoRpc_PrintMessage(message_list[1], indent)
             \o ProtoRpc_EachMessage(Tail(message_list), indent)

\* _PrintMessages with a _ProtoRpcPrinter
ProtoRpc_PrintMessages(message_list, indent) ==
    ProtoRpc_EachMessage(SortedByName(message_list), indent)

\* extended_descriptor.WritePythonFile: _WriteFile with a _ProtoRpcPrinter
WritePythonFile(file_descriptor) ==
    ProtoRpc_PrintPreamble(file_descriptor)
    \o ProtoRpc_PrintEnums(file_descriptor.enum_types, 0)
    \o ProtoRpc_PrintMessages(file_descriptor.message_types, 0)

\* The registry after AddDescriptorFromSchema has been called with each
\* (schema_name, schema) pair of schemas in turn, an exception of one call
\* not keeping the caller from the next.
RECURSIVE AddSchemas(_, _)
AddSchemas(S, schemas) ==
    IF schemas = <<>> THEN S
    ELSE AddSchemas(AddDescriptorFromSchema([S EXCEPT !.err = NoErr],
                                            schemas[1][1], schemas[1][2]),
                    Tail(schemas))

\* MessageRegistry.WriteProtoFile: the error of Validate and the lines
\* written to out.
WriteProtoFile(S) ==
    IF Validate(S).err # NoErr THEN [err |-> Validate(S).err, out |-> <<>>]
    ELSE [err |-> NoErr, out |-> WriteMessagesFile(S.file)]

\* WriteFile without the call of Validate.
WriteFile_Unchecked(S) == [err |-> NoErr, out |-> WritePythonFile(S.file)]

\* MessageRegistry.WriteFile
WriteFile(S) ==
    IF Validate(S).err # NoErr THEN [err |-> Validate(S).err, out |-> <<>>]
    ELSE [err |-> NoErr, out |-> WritePythonFile(S.file)]

\* MessageRegistry.file_descriptor: found tells that a descriptor is returned.
file_descriptor(S) ==
    IF Validate(S).err # NoErr
    THEN [err |-> Validate(S).err, found |-> FALSE, desc |-> InitRegistry.file]
    ELSE [err |-> NoErr, found |-> TRUE, desc |-> S.file]

----------------------------------------------------------------------------
(* The documents the registry is driven with                               *)

Obj(id, properties) ==
    [EmptyNode EXCEPT !.keys = {"id", "type", "properties"}, !.id = id,
                      !.type = "object", !.properties = properties]

P_string == [EmptyNode EXCEPT !.keys = {"type"}, !.type = "string"]

P_bogus == [EmptyNode EXCEPT !.keys = {"type"}, !.type = "bogus"]

P_object == [EmptyNode EXCEPT !.keys = {"type"}, !.type = "object"]

P_ref(name) == [EmptyNode EXCEPT !.keys = {"$ref"}, !.ref = name]

P_enum ==
    [EmptyNode EXCEPT !.keys = {"type", "enum", "enumDescriptions"},
                      !.type = "string",
                      !.enum = << <<"X">>, <<"Y">> >>,
                      !.enumDescriptions = <<"d", "e">>]

P_array(items) ==
    [EmptyNode EXCEPT !.keys = {"type", "items"}, !.type = "array",
                      !.items = <<items>>]

P_format(type, format) ==
    [EmptyNode EXCEPT !.keys = {"type", "format"}, !.type = type,
                      !.format = format]

Required(attrs) ==
    [attrs EXCEPT !.keys = @ \cup {"required"}, !.required = TRUE]

Described(attrs, text) ==
    [attrs EXCEPT !.keys = @ \cup {"description"},
                  !.description = Text(text)]

P_titled(title) ==
    [EmptyNode EXCEPT !.keys = {"type", "title"}, !.type = "object",
                      !.title = title]

\* (schema_name, schema) pairs handed to AddDescriptorFromSchema.
Schemas == {
    \* properties out of key order, a forward $ref, an open map
    << <<"F">>,
       [Obj(<<"F">>, << <<<<"b">>, P_string>>, <<<<"a">>, P_ref(<<"B">>)>> >>)
           EXCEPT !.keys = @ \cup {"additionalProperties"},
                  !.additionalProperties =
                      <<Described(P_string, "m")>>] >>,
    \* a reference back to F and a reference to itself
    << <<"B">>,
       Obj(<<"B">>, << <<<<"s">>, P_ref(<<"B">>)>>,
                       <<<<"f">>, P_ref(<<"F">>)>> >>) >>,
    \* a name that is not in class-name form, an open map and nothing else
    << <<"f">>,
       [Obj(<<"f">>, <<>>)
           EXCEPT !.keys = @ \cup {"additionalProperties"},
                  !.additionalProperties = <<P_string>>] >>,
    \* two inline objects whose keys normalise to the same class name
    << <<"D">>,
       Obj(<<"D">>, << <<<<"f">>, P_object>>, <<<<"F">>, P_object>> >>) >>,
    \* two inline enums whose keys normalise to the same class name
    << <<"E">>,
       Obj(<<"E">>, << <<<<"f">>, P_enum>>, <<<<"F">>, P_enum>> >>) >>,
    \* a $ref to a type that a later property of the message nests
    << <<"N">>,
       Obj(<<"N">>, << <<<<"f">>, P_object>>,
                       <<<<"a">>, P_ref(<<"F">> \o S_Value)>> >>) >>,
    \* a reference, a nested message named by its title, then a property
    \* of a type the registry does not know
    << <<"P">>,
       Obj(<<"P">>, << <<<<"z">>, P_bogus>>,
                       <<<<"f">>, P_array(P_titled(<<"B">>))>>,
                       <<<<"a">>, P_ref(<<"U">>)>> >>) >>,
    \* every label, formats of the table, an inline enum, an open map of
    \* inline objects
    << <<"L">>,
       [Obj(<<"L">>, << <<<<"r">>, Required(P_array(P_string))>>,
                       <<<<"q">>, [Required(P_array(P_string))
                                      EXCEPT !.required = FALSE]>>,
                       <<<<"p">>, Required(P_format("integer", "int32"))>>,
                       <<<<"d">>, P_format("string", "date-time")>>,
                       <<<<"e">>, Described(P_enum, "n")>>,
                       <<<<"w">>, [P_string EXCEPT !.type = "any"]>> >>)
           EXCEPT !.keys = @ \cup {"additionalProperties", "description"},
                  !.description = Text("Labels."),
                  !.additionalProperties = <<P_object>>] >>,
    \* a format that is not in the table
    << <<"Q">>,
       Obj(<<"Q">>, << <<<<"u">>, P_format("string", "guid")>> >>) >>,
    \* a schema that is not an object
    << <<"S">>, [Obj(<<"S">>, <<>>) EXCEPT !.type = "string"] >> }

\* (name, values, descriptions) triples handed to AddEnumDescriptor.
Enums == {
    << <<"c">>, << <<"X">>, <<"Y">> >>, <<"d", "e">> >>,
    << <<"B">>, << <<"Y">>, <<"X">> >>, <<"d", "">> >> }

\* The descriptors handed to the printers directly.  Names and tags are
\* chosen so that the order of the names, the order of the tags and the
\* order of appending can all differ.
Perms(set) ==
    {f \in [1..Cardinality(set) -> set] :
        \A i, j \in DOMAIN f : f[i] = f[j] => i = j}

EnumValueIR(name, number) ==
    [name |-> name, number |-> number, description |-> Text("v")]

ValueLists ==
    Perms({EnumValueIR(<<"Z">>, 0), EnumValueIR(<<"X">>, 1),
           EnumValueIR(<<"Y">>, 2)})

EnumIR(name, values) == [NewEnum(name) EXCEPT !.values = values]

FieldIR(name, number) ==
    [name |-> name, number |-> number, label |-> "OPTIONAL",
     type_name |-> S_string, variant |-> "STRING",
     description |-> Text("f")]

\* A message K that nests two enums and two messages and has one field.
MessageIR(values, enum_types, message_types) ==
    [NewMessage(<<"K">>) EXCEPT
        !.enum_types = [i \in DOMAIN enum_types |->
                           EnumIR(enum_types[i], values)],
        !.message_types = [i \in DOMAIN message_types |->
                              NewMessage(message_types[i])],
        !.fields = <<FieldIR(<<"g">>, 1)>>]

FileIRs ==
    {[message_types |->
          [i \in DOMAIN top |->
              IF top[i] = <<"K">> THEN MessageIR(values, inner, inner)
              ELSE NewMessage(top[i])],
      enum_types |-> [i \in DOMAIN outer |-> EnumIR(outer[i], values)],
      additional_imports |-> InitRegistry.file.additional_imports] :
        values \in ValueLists,
        inner \in Perms({<<"a">>, <<"B">>}),
        outer \in Perms({<<"b">>, <<"C">>}),
        top \in Perms({<<"K">>, <<"J">>, <<"d">>})}

\* Names handed to LookupDescriptor and LookupDescriptorOrDie.
LookupNames == { <<"F">>, <<"B">>, <<"P">>, <<"c">> }

\* Number of AddDescriptorFromSchema / AddEnumDescriptor calls explored.
MaxCalls == 2

----------------------------------------------------------------------------
(* State machine                                                           *)

VARIABLES
    file,          \* __file_descriptor: message_types, enum_types, imports
    registry,      \* __message_registry: full name -> descriptor
    nascent,       \* __nascent_types
    unknown,       \* __unknown_types
    current_path,  \* __current_path
    envs,          \* messages entered and not left; the last is __current_env
    refs,          \* (path, class name) of every $ref resolved so far
    log,           \* declarations, fields and registrations, in order
    document,      \* the arguments of the Add* calls made, in order
    calls,         \* number of Add* calls made
    ret            \* the last call: operation, arguments, outcome

vars == <<file, registry, nascent, unknown, current_path, envs, refs,
          log, document, calls, ret>>

\* The registry object as the operators above take it.
Self ==
    [file |-> file, registry |-> registry, nascent |-> nascent,
     unknown |-> unknown, path |-> current_path, envs |-> envs,
     refs |-> refs, log |-> log, err |-> NoErr]

\* The registry object after a call.
Becomes(S) ==
    /\ file' = S.file
    /\ registry' = S.registry
    /\ nascent' = S.nascent
    /\ unknown' = S.unknown
    /\ current_path' = S.path
    /\ envs' = S.envs
    /\ refs' = S.refs
    /\ log' = S.log

NoRet ==
    [op |-> "init", err |-> NoErr, name |-> <<>>, schema |-> EmptyNode,
     found |-> FALSE, desc |-> NewMessage(<<>>), names |-> {},
     file |-> InitRegistry.file, out |-> <<>>]

Init ==
    /\ file = InitRegistry.file
    /\ registry = InitRegistry.registry
    /\ nascent = InitRegistry.nascent
    /\ unknown = InitRegistry.unknown
    /\ current_path = InitRegistry.path
    /\ envs = InitRegistry.envs
    /\ refs = InitRegistry.refs
    /\ log = InitRegistry.log
    /\ document = <<>>
    /\ calls = 0
    /\ ret = NoRet

DoAddDescriptorFromSchema ==
    /\ calls < MaxCalls
    /\ \E in \in Schemas :
           LET S == AddDescriptorFromSchema(Self, in[1], in[2])
           IN  /\ Becomes(S)
               /\ ret' = [NoRet EXCEPT !.op = "AddDescriptorFromSchema",
                                       !.err = S.err, !.name = in[1],
                                       !.schema = in[2]]
               /\ document' = Append(document, in)
    /\ calls' = calls + 1

DoAddEnumDescriptor ==
    /\ calls < MaxCalls
    /\ \E in \in Enums :
           LET S == AddEnumDescriptor(Self, in[1], Text(""), in[2], in[3])
           IN  /\ Becomes(S)
               /\ ret' = [NoRet EXCEPT !.op = "AddEnumDescriptor",
                                       !.err = S.err, !.name = in[1]]
               /\ document' = Append(document, in)
    /\ calls' = calls + 1

DoValidate ==
    /\ LET r == Validate(Self)
       IN  ret' = [NoRet EXCEPT !.op = "Validate", !.err = r.err,
                                !.names = r.names]
    /\ UNCHANGED <<file, registry, nascent, unknown, current_path, envs,
                   refs, log, document, calls>>

DoLookupDescriptor ==
    /\ \E name \in LookupNames :
           LET r == LookupDescriptor(Self, name)
           IN  ret' = [NoRet EXCEPT !.op = "LookupDescriptor",
                                    !.err = r.err, !.name = name,
                                    !.found = r.found, !.desc = r.desc]
    /\ UNCHANGED <<file, registry, nascent, unknown, current_path, envs,
                   refs, log, document, calls>>

DoLookupDescriptorOrDie ==
    /\ \E name \in LookupNames :
           LET r == LookupDescriptorOrDie(Self, name)
           IN  ret' = [NoRet EXCEPT !.op = "LookupDescriptorOrDie",
                                    !.err = r.err, !.name = name,
                                    !.found = r.found, !.desc = r.desc]
    /\ UNCHANGED <<file, registry, nascent, unknown, current_path, envs,
                   refs, log, document, calls>>

\* out is the sink handed to WriteFile, empty before the call.
DoWriteFile ==
    /\ LET r == WriteFile(Self)
       IN  ret' = [NoRet EXCEPT !.op = "WriteFile", !.err = r.err,
                                !.out = r.out]
    /\ UNCHANGED <<file, registry, nascent, unknown, current_path, envs,
                   refs, log, document, calls>>

DoWriteProtoFile ==
    /\ LET r == WriteProtoFile(Self)
       IN  ret' = [NoRet EXCEPT !.op = "WriteProtoFile", !.err = r.err,
                                !.out = r.out]
    /\ UNCHANGED <<file, registry, nascent, unknown, current_path, envs,
                   refs, log, document, calls>>

DoFileDescriptor ==
    /\ LET r == file_descriptor(Self)
       IN  ret' = [NoRet EXCEPT !.op = "file_descriptor", !.err = r.err,
                                !.found = r.found, !.file = r.desc]
    /\ UNCHANGED <<file, registry, nascent, unknown, current_path, envs,
                   refs, log, document, calls>>

Next ==
    \/ DoAddDescriptorFromSchema
    \/ DoAddEnumDescriptor
    \/ DoValidate
    \/ DoLookupDescriptor
    \/ DoLookupDescriptorOrDie
    \/ DoWriteFile
    \/ DoWriteProtoFile
    \/ DoFileDescriptor

Spec == Init /\ [][Next]_vars

\* The printers alone: a registry whose file descriptor is any of FileIRs
\* is written out.
InitEmit ==
    /\ file \in FileIRs
    /\ registry = InitRegistry.registry
    /\ nascent = InitRegistry.nascent
    /\ unknown = InitRegistry.unknown
    /\ current_path = InitRegistry.path
    /\ envs = InitRegistry.envs
    /\ refs = InitRegistry.refs
    /\ log = InitRegistry.log
    /\ document = <<>>
    /\ calls = 0
    /\ ret = NoRet

NextEmit ==
    \/ DoWriteFile
    \/ DoWriteProtoFile

SpecEmit == InitEmit /\ [][NextEmit]_vars

----------------------------------------------------------------------------
(* Properties                                                              *)

IsAddSchema(r) == r.op = "AddDescriptorFromSchema"

IsLookup(r) == r.op \in {"LookupDescriptor", "LookupDescriptorOrDie"}

\* The step is a call of AddDescriptorFromSchema.
AddSchemaStep == calls' = calls + 1 /\ IsAddSchema(ret')

\* The fields of message m carry the tags the schema's sorted keys give.
TagsOK(m, schema) ==
    LET properties == PropertiesOf(schema)
        k == Len(properties)
        open == Has(schema, "additionalProperties")
        Rank(key) ==
            1 + Cardinality({j \in 1..k : StrLess(properties[j][1], key)})
    IN  /\ Len(m.fields) = k + (IF open THEN 1 ELSE 0)
        /\ \A i \in 1..k :
               \E f \in Range(m.fields) :
                   /\ f.number = Rank(properties[i][1])
                   /\ f.name = CleanName(properties[i][1])
        /\ open => \E f \in Range(m.fields) :
                       /\ f.number = k + 1
                       /\ f.name = S_additionalProperties

\* No two fields of m share a tag, and the tags are 1..n.
TagsUnique(m) ==
    /\ \A i, j \in DOMAIN m.fields :
           i # j => m.fields[i].number # m.fields[j].number
    /\ {m.fields[i].number : i \in DOMAIN m.fields} = 1..Len(m.fields)

\* C1: a message built by AddDescriptorFromSchema from a schema with k
\* properties carries tags 1..k in sorted key order, whatever the order of
\* the keys in the document, tag k+1 for the additionalProperties field, and
\* no tag twice; every message the call registers has distinct tags 1..n.
C1_TagsFollowSortedKeys ==
    [][(/\ AddSchemaStep
        /\ ret'.err = NoErr
        /\ ComputeFullName(Self, ret'.name) \notin DOMAIN registry)
       => LET fn == ComputeFullName(Self, ClassName(ret'.schema.id))
          IN  /\ fn \in DOMAIN registry'
              /\ TagsOK(registry'[fn], ret'.schema)
              /\ \A n \in DOMAIN registry' \ DOMAIN registry :
                     registry'[n].kind = "message"
                         => TagsUnique(registry'[n])]_vars

\* C1 witness: a message built from two properties listed out of key order
\* and an additionalProperties clause is registered with three fields.
C1_Witness ==
    /\ IsAddSchema(ret) /\ ret.err = NoErr
    /\ Has(ret.schema, "additionalProperties")
    /\ Len(ret.schema.properties) = 2
    /\ StrLess(ret.schema.properties[2][1], ret.schema.properties[1][1])
    /\ ClassName(ret.schema.id) \in DOMAIN registry
    /\ Len(registry[ClassName(ret.schema.id)].fields) = 3
    /\ registry[ClassName(ret.schema.id)].fields[3].number = 3

\* C2: Validate() succeeds iff nascent and unknown are both empty.
C2_ValidateIffBothEmpty ==
    ret.op = "Validate"
        => (ret.err = NoErr <=> (nascent = {} /\ unknown = {}))

\* C2 witness: Validate has raised with only the unknown set non-empty.
C2_Witness ==
    /\ ret.op = "Validate" /\ ret.err = "Malformed"
    /\ nascent = {} /\ unknown # {}

\* C3: the error of a failed Validate() names every full name in nascent
\* and every name in unknown.
C3_ErrorNamesUnion ==
    (ret.op = "Validate" /\ ret.err # NoErr)
        => ret.names = nascent \cup unknown

\* A reference the walk has resolved that no registered descriptor answers,
\* neither under its bare name nor under the path it was seen at.
Unanswered(r) ==
    /\ r[2] \notin DOMAIN registry
    /\ Join(".", r[1] \o <<r[2]>>) \notin DOMAIN registry

\* C4: once no call is left unfinished, a $ref whose name no descriptor was
\* registered for is in unknown, and Validate() fails naming it.
C4_DanglingRefFailsValidation ==
    nascent = {}
        => \A r \in refs :
               Unanswered(r)
                   => /\ r[2] \in unknown
                      /\ ret.op = "Validate"
                             => ret.err = "Malformed" /\ r[2] \in ret.names

\* C4 witness: Validate has failed naming a reference nothing answers.
C4_Witness ==
    /\ nascent = {}
    /\ ret.op = "Validate" /\ ret.err = "Malformed"
    /\ \E r \in refs : Unanswered(r) /\ r[2] \in ret.names

\* C5: when every $ref seen is answered by a registered descriptor, at top
\* level or nested in the referencing message, and no call is left
\* unfinished, unknown is empty and Validate() succeeds.
C5_AnsweredRefsResolve ==
    (nascent = {} /\ \A r \in refs : ~Unanswered(r))
        => /\ unknown = {}
           /\ ret.op = "Validate" => ret.err = NoErr

\* C6: AddDescriptorFromSchema is a no-op when a descriptor with the
\* normalized, path-qualified name exists, and when the call repeats the
\* arguments of the successful call before it: no error, registry unchanged.
C6_SecondCallIsNoOp ==
    [][(/\ AddSchemaStep
        /\ \/ /\ ClassNameOK(ret'.name)
              /\ ComputeFullName(Self, ClassName(ret'.name))
                     \in DOMAIN registry
           \/ /\ IsAddSchema(ret) /\ ret.err = NoErr
              /\ ret'.name = ret.name /\ ret'.schema = ret.schema)
       => /\ ret'.err = NoErr
          /\ UNCHANGED <<file, registry, nascent, unknown, current_path,
                         envs>>]_vars

\* The type a property synthesizes: an inline object, an inline enum, or
\* none.
Synthesizes(attrs) ==
    IF Has(attrs, "$ref") THEN "none"
    ELSE IF Has(attrs, "enum") THEN "enum"
    ELSE IF Has(attrs, "format") THEN "none"
    ELSE IF Has(attrs, "type") /\ attrs.type = "object" THEN "object"
    ELSE "none"

\* Two properties of the schema synthesize a type of the same kind under
\* the same class name.
HasClashingProperties(schema) ==
    LET properties == PropertiesOf(schema)
    IN  \E i, j \in DOMAIN properties :
            /\ i # j
            /\ Synthesizes(properties[i][2]) # "none"
            /\ Synthesizes(properties[i][2]) = Synthesizes(properties[j][2])
            /\ ClassName(properties[i][1]) = ClassName(properties[j][1])

\* C7: a message two of whose properties synthesize a type of the same name
\* at the same path is rejected with RedefinitionError.
C7_ClashIsRedefinitionError ==
    [][(/\ AddSchemaStep
        /\ ComputeFullName(Self, ret'.name) \notin DOMAIN registry
        /\ HasClashingProperties(ret'.schema))
       => ret'.err = "RedefinitionError"]_vars

\* Every descriptor nested in m is named by m's full name and its own name.
RECURSIVE NestedNamesOK(_)
NestedNamesOK(m) ==
    /\ \A i \in DOMAIN m.enum_types :
           m.enum_types[i].full_name
               = m.full_name \o <<".">> \o m.enum_types[i].name
    /\ \A i \in DOMAIN m.message_types :
           /\ m.message_types[i].full_name
                  = m.full_name \o <<".">> \o m.message_types[i].name
           /\ NestedNamesOK(m.message_types[i])

\* C8: a registry entry is never replaced or removed, and a descriptor's
\* full_name is the dotted path it was declared at: the key it is registered
\* under, the bare name at file level, the container's full name followed by
\* its own name when nested.
C8_RegistryAppendOnce ==
    [][/\ \A n \in DOMAIN registry :
              n \in DOMAIN registry' /\ registry'[n] = registry[n]
       /\ \A n \in DOMAIN registry' :
              /\ registry'[n].full_name = n
              /\ registry'[n].kind = "message"
                     => NestedNamesOK(registry'[n])
       /\ \A i \in DOMAIN file'.message_types :
              file'.message_types[i].full_name = file'.message_types[i].name
       /\ \A i \in DOMAIN file'.enum_types :
              file'.enum_types[i].full_name = file'.enum_types[i].name]_vars

\* C8 witness: a call on a registry that already holds descriptors has
\* raised RedefinitionError, and a nested descriptor is registered.
C8_Witness ==
    /\ ret.err = "RedefinitionError"
    /\ \E n \in DOMAIN registry :
           /\ registry[n].kind = "message"
           /\ registry[n].message_types # <<>>

C10_NascentAlwaysInProgress ==
    (IsLookup(ret) /\ ret.name \in nascent)
        => ret.err = "InProgressReferenceError"

\* C10 amended: a lookup of a name that is in nascent and is not a registry
\* key fails with InProgressReferenceError; a name that is a registry key is
\* returned, also when it is in nascent; for a name in neither set
\* LookupDescriptorOrDie fails with UnresolvedTypeReference and
\* LookupDescriptor returns no descriptor without failing.
C10_LookupOutcomes ==
    IsLookup(ret)
        => /\ (ret.name \in nascent /\ ret.name \notin DOMAIN registry)
                  => ret.err = "InProgressReferenceError"
           /\ ret.name \in DOMAIN registry => (ret.err = NoErr /\ ret.found)
           /\ (ret.name \notin nascent /\ ret.name \notin DOMAIN registry)
                  => /\ ~ret.found
                     /\ ret.err = IF ret.op = "LookupDescriptorOrDie"
                                  THEN "UnresolvedTypeReference" ELSE NoErr

\* C10 witness: a lookup of a name that is only in nascent has failed.
C10_Witness ==
    /\ IsLookup(ret)
    /\ ret.name \in nascent /\ ret.name \notin DOMAIN registry
    /\ ret.err = "InProgressReferenceError"

IsEmission(r) == r.op \in {"WriteFile", "WriteProtoFile", "file_descriptor"}

\* C11: WriteFile, WriteProtoFile and file_descriptor write or return
\* something only when nascent and unknown are both empty; when one of them
\* is not, they fail with the error of Validate, nothing has reached the
\* sink and no descriptor is returned.
C11_EmissionGatedOnValidation ==
    IsEmission(ret) =>
        /\ (ret.err = NoErr \/ ret.out # <<>> \/ ret.found)
               => (nascent = {} /\ unknown = {})
        /\ (nascent # {} \/ unknown # {})
               => (ret.err = "Malformed" /\ ret.out = <<>> /\ ~ret.found)
        /\ (nascent = {} /\ unknown = {})
               => (ret.err = NoErr /\ (ret.out # <<>> \/ ret.found))

\* WriteProtoFile has failed on a registry whose only flaw is a reference
\* that nothing answers.
C11_Witness ==
    /\ ret.op = "WriteProtoFile"
    /\ ret.err = "Malformed"
    /\ nascent = {}
    /\ unknown # {}
    /\ file.message_types # <<>>

IsAdd(r) == r.op \in {"AddDescriptorFromSchema", "AddEnumDescriptor"}

IsValidation(r) == r.op = "Validate" \/ IsEmission(r)

\* An AddDescriptorFromSchema or AddEnumDescriptor call that raises.
RaisingAddStep == calls' = calls + 1 /\ IsAdd(ret') /\ ret'.err # NoErr

\* C12 as stated: a Validate, WriteFile, WriteProtoFile or file_descriptor
\* access that follows a raising AddDescriptorFromSchema or
\* AddEnumDescriptor call fails.
C12_AnyFailureIsLatched ==
    [][(IsAdd(ret) /\ ret.err # NoErr /\ IsValidation(ret'))
           => ret'.err # NoErr]_vars

\* C12 amended: a call that raises after declaring a descriptor leaves a
\* name in nascent, nascent never becomes empty again, and Validate,
\* WriteFile, WriteProtoFile and file_descriptor fail while it is not
\* empty; a call that raises before declaring leaves the registry as it was.
C12_FailureAfterDeclareIsLatched ==
    [][/\ nascent # {} => nascent' # {}
       /\ RaisingAddStep =>
              IF log' # log THEN nascent' # {}
              ELSE UNCHANGED <<file, registry, nascent, unknown,
                               current_path, envs, refs>>
       /\ (IsValidation(ret') /\ nascent' # {}) => ret'.err = "Malformed"
      ]_vars

\* Validate fails on a registry where a descriptor was declared and never
\* registered and another one was registered after it.
C12_Witness ==
    /\ ret.op = "Validate"
    /\ ret.err = "Malformed"
    /\ \E i, j \in DOMAIN log :
           /\ i < j
           /\ log[i].ev = "declare"
           /\ log[i].name \in nascent
           /\ log[j].ev = "register"
           /\ log[j].name \in DOMAIN registry
           /\ ~StartsWith(log[j].name, log[i].name)

IsEnumLine(l) == l.kind = "enum"

IsMessageLine(l) == l.kind \in {"message", "emptymessage"}

IsDeclaration(l) == IsEnumLine(l) \/ IsMessageLine(l)

\* Lines i < j of out open two declarations of the same level: they have
\* the same indent and nothing between them is printed further out.
Siblings(out, i, j) ==
    /\ i < j
    /\ IsDeclaration(out[i]) /\ IsDeclaration(out[j])
    /\ out[i].indent = out[j].indent
    /\ \A k \in (i + 1)..(j - 1) :
           out[k].kind = "blank" \/ out[k].indent >= out[i].indent

\* Lines i < j of out are values of one enum.
SameEnum(out, i, j) ==
    /\ i < j
    /\ out[i].kind = "value" /\ out[j].kind = "value"
    /\ \A k \in (i + 1)..(j - 1) : ~IsEnumLine(out[k])

NamesOf(ls) == {ls[i].name : i \in DOMAIN ls}

TopLevel(out, IsKind(_)) ==
    {out[i].name : i \in {k \in DOMAIN out :
                              IsKind(out[k]) /\ out[k].indent = 0}}

\* C13: in the text either printer writes, the declarations of one level
\* are the enums in ascending name order followed by the messages in
\* ascending name order, the values of an enum are in ascending tag order,
\* and every enum and message of the file is declared.
C13_EmittedInSortedOrder ==
    ret.op \in {"WriteFile", "WriteProtoFile"} /\ ret.err = NoErr =>
        /\ \A i, j \in DOMAIN ret.out :
               Siblings(ret.out, i, j) =>
                   /\ ~(IsMessageLine(ret.out[i]) /\ IsEnumLine(ret.out[j]))
                   /\ IsEnumLine(ret.out[i]) = IsEnumLine(ret.out[j])
                          => ~StrLess(ret.out[j].name, ret.out[i].name)
        /\ \A i, j \in DOMAIN ret.out :
               SameEnum(ret.out, i, j)
                   => ret.out[i].number <= ret.out[j].number
        /\ TopLevel(ret.out, IsEnumLine) = NamesOf(file.enum_types)
        /\ TopLevel(ret.out, IsMessageLine) = NamesOf(file.message_types)

\* A file whose enums and messages, and the enums, messages and values
\* nested in them, were all appended against their sorted order has been
\* written as proto text.
C13_Witness ==
    /\ ret.op = "WriteProtoFile"
    /\ ret.err = NoErr
    /\ Len(file.enum_types) = 2
    /\ StrLess(file.enum_types[2].name, file.enum_types[1].name)
    /\ file.enum_types[1].values[1].number = 2
    /\ Len(file.message_types) = 3
    /\ file.message_types[1].name = <<"d">>
    /\ file.message_types[2].name = <<"K">>
    /\ StrLess(file.message_types[2].enum_types[2].name,
               file.message_types[2].enum_types[1].name)
    /\ StrLess(file.message_types[2].message_types[2].name,
               file.message_types[2].message_types[1].name)

IsWrite(r) == r.op \in {"WriteFile", "WriteProtoFile"}

\* The text the operation op writes for registry S.
TextOf(op, S) == IF op = "WriteFile" THEN WriteFile(S) ELSE WriteProtoFile(S)

Reverse(seq) == [i \in DOMAIN seq |-> seq[Len(seq) + 1 - i]]

\* The document doc with its schemas in the order order and, when flip is
\* set, the property keys of every schema in the opposite order.
Reordered(doc, order, flip) ==
    [i \in DOMAIN doc |->
        <<doc[order[i]][1],
          IF flip
          THEN [doc[order[i]][2] EXCEPT !.properties = Reverse(@)]
          ELSE doc[order[i]][2]>>]

\* Only AddDescriptorFromSchema has been called, each time with another
\* schema name.
IsSchemaDocument(doc) ==
    /\ \A i \in DOMAIN doc : Len(doc[i]) = 2
    /\ \A i, j \in DOMAIN doc : doc[i][1] = doc[j][1] => i = j

\* C14: the text WriteFile or WriteProtoFile writes for a document is the
\* text it writes for the same document with the schemas added in any other
\* order and the property keys in the opposite order, whenever that one
\* validates too; and a second call on the same registry writes the same
\* text again.
C14_EmissionIndependentOfOrder ==
    [][(IsWrite(ret') /\ ret'.err = NoErr) =>
           /\ IsSchemaDocument(document) =>
                  \A order \in Perms(DOMAIN document), flip \in BOOLEAN :
                      TextOf(ret'.op,
                             AddSchemas(InitRegistry,
                                        Reordered(document, order, flip)))
                          \in {[err |-> "Malformed", out |-> <<>>],
                               [err |-> NoErr, out |-> ret'.out]}
           /\ (ret.op = ret'.op /\ ret.err = NoErr) => ret'.out = ret.out
      ]_vars

\* WriteFile has written a document of two schemas that were added against
\* the order of their names, one of them with its keys out of order, and
\* the document validates in the other order with the keys reversed too.
C14_Witness ==
    /\ ret.op = "WriteFile"
    /\ ret.err = NoErr
    /\ IsSchemaDocument(document)
    /\ Len(document) = 2
    /\ Len(file.message_types) = 2
    /\ StrLess(file.message_types[2].name, file.message_types[1].name)
    /\ \E i \in DOMAIN document :
           /\ Len(document[i][2].properties) > 1
           /\ SortedItems(document[i][2].properties)
                  # document[i][2].properties
    /\ WriteFile(AddSchemas(InitRegistry,
                            Reordered(document, <<2, 1>>, TRUE))).err = NoErr
    /\ AddSchemas(InitRegistry, Reordered(document, <<2, 1>>, TRUE)).file
           # file

\* The full name AddDescriptorFromSchema registers the message of schema
\* under, when called in the current state.
FullNameOf(schema) == Join(".", current_path \o <<ClassName(schema.id)>>)

\* A successful AddDescriptorFromSchema call that has registered the message
\* of a schema with an additionalProperties clause.
OpenMapStep ==
    /\ AddSchemaStep
    /\ ret'.err = NoErr
    /\ Has(ret'.schema, "additionalProperties")
    /\ FullNameOf(ret'.schema) \notin DOMAIN registry
    /\ FullNameOf(ret'.schema) \in DOMAIN registry'

FieldsNamed(m, name) == {i \in DOMAIN m.fields : m.fields[i].name = name}

Count(seq, x) == Cardinality({i \in DOMAIN seq : seq[i] = x})

\* The type of the value field for the clauses the documents use: a
\* primitive type, or an inline object nested in AdditionalProperty.
ValueTypedFrom(clause, field, ap_name, reg) ==
    IF clause.type = "object"
    THEN /\ field.variant = "MESSAGE"
         /\ field.type_name = S_Value \o S_Value
         /\ (ap_name \o <<".">> \o S_Value \o S_Value) \in DOMAIN reg
    ELSE /\ field.variant = PRIMITIVE_TYPE_INFO_MAP[clause.type].variant
         /\ field.type_name = PRIMITIVE_TYPE_INFO_MAP[clause.type].type_name

\* C15: the message M registered for a schema with an additionalProperties
\* clause nests a message AdditionalProperty, registered as
\* M.AdditionalProperty, whose fields are key (string, tag 1) and value
\* (tag 2, of the type of the clause, described without the description of
\* the clause); M has one field additionalProperties, REPEATED, MESSAGE, of
\* type AdditionalProperty, and one decorator, naming that field; and the
\* import list holds the encoding import once.
C15_OpenMapProduct ==
    [][OpenMapStep =>
           LET fn == FullNameOf(ret'.schema)
               ap_name == fn \o <<".">> \o S_AdditionalProperty
               m == registry'[fn]
               clause == ret'.schema.additionalProperties[1]
           IN  /\ ap_name \in DOMAIN registry'
               /\ registry'[ap_name].full_name = ap_name
               /\ registry'[ap_name] \in Range(m.message_types)
               /\ Len(registry'[ap_name].fields) = 2
               /\ LET key == registry'[ap_name].fields[1]
                      value == registry'[ap_name].fields[2]
                  IN  /\ key.name = S_key /\ key.number = 1
                      /\ key.type_name = S_string /\ key.variant = "STRING"
                      /\ value.name = S_value /\ value.number = 2
                      /\ ValueTypedFrom(clause, value, ap_name, registry')
                      /\ value.description
                             = Format("A %s attribute.", value.type_name)
               /\ Cardinality(FieldsNamed(m, S_additionalProperties)) = 1
               /\ \A i \in FieldsNamed(m, S_additionalProperties) :
                      /\ m.fields[i].label = "REPEATED"
                      /\ m.fields[i].variant = "MESSAGE"
                      /\ m.fields[i].type_name = S_AdditionalProperty
               /\ m.decorators
                      = <<"encoding.MapUnrecognizedFields('additionalProperties')">>
               /\ Count(file'.additional_imports, EncodingImport) = 1
      ]_vars

\* A second message with an additionalProperties clause has been registered,
\* this one from a clause that carries a description.
C15_Witness ==
    /\ IsAddSchema(ret)
    /\ ret.err = NoErr
    /\ Has(ret.schema, "additionalProperties")
    /\ Has(ret.schema.additionalProperties[1], "description")
    /\ ClassName(ret.schema.id) \in DOMAIN registry
    /\ registry[ClassName(ret.schema.id)].decorators # <<>>
    /\ \E n \in DOMAIN registry :
           /\ n # ClassName(ret.schema.id)
           /\ registry[n].kind = "message"
           /\ registry[n].decorators # <<>>

\* A successful AddDescriptorFromSchema call that has registered the message
\* of its schema.
RegisteringStep ==
    /\ AddSchemaStep
    /\ ret'.err = NoErr
    /\ FullNameOf(ret'.schema) \notin DOMAIN registry
    /\ FullNameOf(ret'.schema) \in DOMAIN registry'

\* attrs carries enum and enumDescriptions of equal length and no $ref.
IsInlineEnum(attrs) ==
    /\ ~Has(attrs, "$ref")
    /\ Has(attrs, "enum") /\ Has(attrs, "enumDescriptions")
    /\ Len(attrs.enum) = Len(attrs.enumDescriptions)

\* <NameHint>ValuesEnum for the property key
EnumNameFor(key) == ClassName(ClassName(key) \o S_Value) \o S_ValuesEnum

\* C16: for every property with enum and enumDescriptions of equal length
\* of a schema whose message M has been registered, the registry holds an
\* enum M.<NameHint>ValuesEnum, nested in M, whose values are the entries
\* of the enum list in order with tags 0..n-1; the field of the property
\* has variant ENUM and the enum's name as type_name; and neither nascent
\* nor unknown holds the enum's name, bare or qualified.
C16_InlineEnum ==
    [][RegisteringStep =>
           \A p \in Range(PropertiesOf(ret'.schema)) :
               IsInlineEnum(p[2]) =>
                   LET fn == FullNameOf(ret'.schema)
                       m == registry'[fn]
                       enum_name == EnumNameFor(p[1])
                       full_name == fn \o <<".">> \o enum_name
                   IN  /\ full_name \in DOMAIN registry'
                       /\ registry'[full_name].kind = "enum"
                       /\ registry'[full_name].name = enum_name
                       /\ registry'[full_name].full_name = full_name
                       /\ registry'[full_name] \in Range(m.enum_types)
                       /\ Len(registry'[full_name].values) = Len(p[2].enum)
                       /\ \A i \in DOMAIN p[2].enum :
                              /\ registry'[full_name].values[i].number = i - 1
                              /\ registry'[full_name].values[i].name
                                     = p[2].enum[i]
                       /\ \E i \in DOMAIN m.fields :
                              /\ m.fields[i].name = CleanName(p[1])
                              /\ m.fields[i].variant = "ENUM"
                              /\ m.fields[i].type_name = enum_name
                       /\ {enum_name, full_name} \cap (nascent' \cup unknown')
                              = {}
      ]_vars

\* A message with an inline enum of two values has been registered.
C16_Witness ==
    /\ IsAddSchema(ret)
    /\ ret.err = NoErr
    /\ ClassName(ret.schema.id) \in DOMAIN registry
    /\ \E p \in Range(PropertiesOf(ret.schema)) :
           /\ IsInlineEnum(p[2])
           /\ Len(p[2].enum) = 2
           /\ (ClassName(ret.schema.id) \o <<".">> \o EnumNameFor(p[1]))
                  \in DOMAIN registry

IsRequired(attrs) == Has(attrs, "required") /\ attrs.required

IsArray(attrs) == Has(attrs, "type") /\ attrs.type = "array"

\* C17: the field of every property of a registered message is REQUIRED
\* when the property is marked required: true, else REPEATED when its type
\* is array, else OPTIONAL; so a required array is REQUIRED and a property
\* that is not an array is never REPEATED.
C17_LabelPolicy ==
    [][RegisteringStep =>
           \A p \in Range(PropertiesOf(ret'.schema)) :
               \E i \in DOMAIN registry'[FullNameOf(ret'.schema)].fields :
                   LET field == registry'[FullNameOf(ret'.schema)].fields[i]
                   IN  /\ field.name = CleanName(p[1])
                       /\ IsRequired(p[2]) => field.label = "REQUIRED"
                       /\ (~IsRequired(p[2]) /\ IsArray(p[2]))
                              => field.label = "REPEATED"
                       /\ (~IsRequired(p[2]) /\ ~IsArray(p[2]))
                              => field.label = "OPTIONAL"
                       /\ (IsRequired(p[2]) /\ IsArray(p[2]))
                              => field.label # "REPEATED"
                       /\ ~IsArray(p[2]) => field.label # "REPEATED"
      ]_vars

\* A message has been registered that has a required array, an array that
\* is not required, a required integer and an optional string.
C17_Witness ==
    /\ IsAddSchema(ret)
    /\ ret.err = NoErr
    /\ ClassName(ret.schema.id) \in DOMAIN registry
    /\ \E p, q, r, w \in Range(PropertiesOf(ret.schema)) :
           /\ IsRequired(r[2]) /\ IsArray(r[2])
           /\ ~IsRequired(q[2]) /\ IsArray(q[2])
           /\ IsRequired(p[2]) /\ ~IsArray(p[2])
           /\ ~IsRequired(w[2]) /\ ~IsArray(w[2])
    /\ {registry[ClassName(ret.schema.id)].fields[i].label :
            i \in DOMAIN registry[ClassName(ret.schema.id)].fields}
           = {"REQUIRED", "REPEATED", "OPTIONAL"}

\* C18 as claimed: after AddDescriptorFromSchema returns or raises, the
\* current path and the chain of containers entered are what they were
\* when it was called.
C18_CursorRestored ==
    [][AddSchemaStep => /\ current_path' = current_path
                        /\ Len(envs') = Len(envs)]_vars

\* n is the full name of a descriptor nested, at any depth, in p.
IsNestedName(n, p) == StartsWith(n, p \o <<".">>)

\* Just before event k of the log, name is declared and not yet registered.
BeingBuilt(name, k) ==
    \E j \in 1..(k - 1) :
        /\ log[j] = Event("declare", name, <<>>)
        /\ \A r \in (j + 1)..(k - 1) : log[r] # Event("register", name, <<>>)

\* The names whose last declaration has not been followed by a registration.
DeclaredOnly ==
    {log[j].name : j \in {i \in DOMAIN log :
        /\ log[i].ev = "declare"
        /\ \A r \in (i + 1)..Len(log) :
               log[r] # Event("register", log[i].name, <<>>)}}

\* C19: a message is in nascent from its declaration to its registration,
\* every field is appended in between, every type declared under its name
\* is registered before it is, and only a registration puts a name into the
\* registry; so a nested 'P.X' is registered strictly before 'P'.
C19_DeclareResolveRegister ==
    /\ nascent = DeclaredOnly
    /\ \A n \in DOMAIN registry :
           \E k \in DOMAIN log : log[k] = Event("register", n, <<>>)
    /\ \A k \in DOMAIN log :
           /\ log[k].ev = "field" => BeingBuilt(log[k].name, k)
           /\ log[k].ev = "register" =>
                  /\ BeingBuilt(log[k].name, k)
                  /\ log[k].name \in DOMAIN registry
                  /\ \A i \in 1..(k - 1) :
                         (/\ log[i].ev = "declare"
                          /\ IsNestedName(log[i].name, log[k].name))
                             => \E r \in (i + 1)..(k - 1) :
                                    log[r] = Event("register", log[i].name,
                                                   <<>>)
    /\ \A n, p \in DOMAIN registry :
           IsNestedName(n, p) =>
               \E i, k \in DOMAIN log :
                   /\ i < k
                   /\ log[i] = Event("register", n, <<>>)
                   /\ log[k] = Event("register", p, <<>>)
                   /\ \A r \in DOMAIN log :
                          log[r] = Event("register", n, <<>>) => r < k

\* A message with fields has been registered after a message nested in it
\* that itself nests a message, and after an enum nested in it.
C19_Witness ==
    \E p, x, y, e \in DOMAIN registry :
        /\ IsNestedName(x, p) /\ IsNestedName(y, x) /\ IsNestedName(e, p)
        /\ registry[e].kind = "enum"
        /\ registry[p].kind = "message" /\ Len(registry[p].fields) > 2
        /\ registry[x].kind = "message" /\ registry[x].fields # <<>>

\* attrs reaches the format branch of __GetTypeInfo with a format token
\* that is not in the format table.
HasUnknownFormat(attrs) ==
    /\ ~Has(attrs, "$ref") /\ ~Has(attrs, "enum")
    /\ Has(attrs, "type") /\ Has(attrs, "format")
    /\ FormatKey(attrs.format) \notin DOMAIN PRIMITIVE_FORMAT_MAP

\* C20 as claimed: a call that fails on a message whose only property has
\* a format token outside the format table fails with UnsupportedSchemaType.
C20_UnknownFormatIsUnsupportedSchemaType ==
    (/\ IsAddSchema(ret)
     /\ ret.err # NoErr
     /\ Len(PropertiesOf(ret.schema)) = 1
     /\ HasUnknownFormat(PropertiesOf(ret.schema)[1][2]))
        => ret.err = "UnsupportedSchemaType"

\* No name is both a key of the registry and a member of unknown.
NoRegisteredUnknown == DOMAIN registry \cap unknown = {}

\* C21: before and after every call, failed calls included, no name is
\* both a key of the registry and a member of unknown; a name the call
\* adds to unknown is the class name of a $ref whose bare and
\* path-qualified names were not registered when the call began and whose
\* bare name is not registered when it ends; and no name the call
\* registers is left in unknown.
C21_UnknownDisjointFromRegistry ==
    [][/\ NoRegisteredUnknown
       /\ NoRegisteredUnknown'
       /\ \A n \in unknown' \ unknown :
              /\ n \notin DOMAIN registry'
              /\ \E r \in refs' :
                     /\ r[2] = n
                     /\ n \notin DOMAIN registry
                     /\ Join(".", r[1] \o <<n>>) \notin DOMAIN registry
       /\ \A n \in DOMAIN registry' \ DOMAIN registry : n \notin unknown'
      ]_vars

\* A top-level name was referred to from inside a message registered before
\* it, so it was added to unknown, and the call that has just returned
\* registered it and took it out of unknown.
C21_Witness ==
    /\ IsAddSchema(ret) /\ ret.err = NoErr
    /\ \E r \in refs :
           /\ r[1] # <<>>
           /\ r[2] \in DOMAIN registry
           /\ r[2] \notin unknown
           /\ \E i, k \in DOMAIN log :
                  /\ i < k
                  /\ log[i] = Event("register", Join(".", r[1]), <<>>)
                  /\ log[k] = Event("register", r[2], <<>>)
                  /\ k = Len(log)


============================================================================
